---- MODULE Spec2Model ----
(***************************************************************************)
(* Model of the WeeWX NMEA 0183 XDR service (nmea-xdr.py).                 *)
(*                                                                         *)
(* Two threads share a queue.Queue: XDRThread.run reads lines from the     *)
(* serial device, validates them and puts the accepted sentences;          *)
(* XDR.new_loop_packet, called by the engine's main thread for every LOOP  *)
(* packet, trims and drains the queue and writes converted values into the *)
(* packet.                                                                 *)
(*                                                                         *)
(* Text is modelled as sequences of byte values (0..255).  Numbers parsed  *)
(* by float() are held exactly, in thousandths.  The repository holds two  *)
(* copies of the module, version 0.10 (nmea-xdr.py) and version 0.11       *)
(* (bin/user/nmea-xdr.py, the one install.py installs); they differ in the *)
(* checksum fold, and the variable `version` says which one is running.    *)
(***************************************************************************)
EXTENDS Integers, Sequences, FiniteSets, TLC

(***************************************************************************)
(* Bounds of the model.                                                    *)
(***************************************************************************)
\* how many sentences the reader enqueues in one behaviour
MaxEnq == 3
\* the largest configured max_packets the model tries
MaxMaxPackets == 1

(***************************************************************************)
(* Characters.                                                             *)
(***************************************************************************)
\* The printable ASCII characters, code 32 first.  The quote characters and the
\* backslash are stood for by a name: no modelled text contains them.
Printable ==
  << " ", "!", "DQUOTE", "#", "$", "%", "&", "SQUOTE", "(", ")", "*", "+", ",", "-", ".", "/",
     "0", "1", "2", "3", "4", "5", "6", "7", "8", "9", ":", ";", "<", "=", ">", "?",
     "@", "A", "B", "C", "D", "E", "F", "G", "H", "I", "J", "K", "L", "M", "N", "O",
     "P", "Q", "R", "S", "T", "U", "V", "W", "X", "Y", "Z", "[", "BSLASH", "]", "^", "_",
     "BQUOTE", "a", "b", "c", "d", "e", "f", "g", "h", "i", "j", "k", "l", "m", "n", "o",
     "p", "q", "r", "s", "t", "u", "v", "w", "x", "y", "z", "{", "|", "}", "~" >>

\* ord(c) of a printable character
Ord(c) == 31 + CHOOSE i \in 1..Len(Printable) : Printable[i] = c

\* the byte string of a text given character by character
B(chars) == [i \in 1..Len(chars) |-> Ord(chars[i])]

\* the characters the code names
DOLLAR == Ord("$")
ASTERISK == Ord("*")
COMMA == Ord(",")
UNDERSCORE == Ord("_")
PLUS == Ord("+")
MINUS == Ord("-")
DOT == Ord(".")
ZERO == Ord("0")
LOWER_X == Ord("x")
UPPER_X == Ord("X")

\* bytes.strip() with no argument removes these bytes from both ends
Whitespace == {9, 10, 11, 12, 13, 32}

(***************************************************************************)
(* Python sequence operations.                                             *)
(***************************************************************************)
Min(a, b) == IF a < b THEN a ELSE b

\* s[a:b] for 0 <= a, 0 <= b (0-based, end exclusive, clipped to the length)
Slice(s, a, b) == SubSeq(s, a + 1, Min(b, Len(s)))

\* s[a:]
SliceFrom(s, a) == SubSeq(s, a + 1, Len(s))

\* s.rfind(c): the 0-based index of the last c in s, or -1
RFind(s, c) ==
  IF \E i \in 1..Len(s) : s[i] = c
  THEN (CHOOSE i \in 1..Len(s) : s[i] = c /\ \A j \in (i + 1)..Len(s) : s[j] # c) - 1
  ELSE -1

\* bytes.strip() / str.strip()
Strip(s) ==
  IF \A i \in 1..Len(s) : s[i] \in Whitespace
  THEN << >>
  ELSE LET first == CHOOSE i \in 1..Len(s) :
                       s[i] \notin Whitespace /\ \A j \in 1..(i - 1) : s[j] \in Whitespace
           last == CHOOSE i \in 1..Len(s) :
                       s[i] \notin Whitespace /\ \A j \in (i + 1)..Len(s) : s[j] \in Whitespace
       IN  SubSeq(s, first, last)

\* bytes.decode('ascii') succeeds iff every byte is below 128
IsAscii(s) == \A i \in 1..Len(s) : s[i] < 128

\* the fields of s from the one that begins at start on, the scan being at i
RECURSIVE SplitAt(_, _, _, _)
SplitAt(s, sep, start, i) ==
  IF i > Len(s) THEN << SubSeq(s, start, Len(s)) >>
  ELSE IF s[i] = sep
    THEN << SubSeq(s, start, i - 1) >> \o SplitAt(s, sep, i + 1, i + 1)
  ELSE SplitAt(s, sep, start, i + 1)

\* s.split(sep): the fields between the separators, at least one
Split(s, sep) == SplitAt(s, sep, 1, 1)

(***************************************************************************)
(* Integer operations.                                                     *)
(***************************************************************************)
\* a ^ b on non-negative integers
RECURSIVE Xor(_, _)
Xor(a, b) ==
  IF a = 0 THEN b
  ELSE IF b = 0 THEN a
  ELSE (((a % 2) + (b % 2)) % 2) + 2 * Xor(a \div 2, b \div 2)

\* the value of a hexadecimal digit, -1 for any other byte
HexDigitVal(c) ==
  IF c >= 48 /\ c <= 57 THEN c - 48
  ELSE IF c >= 65 /\ c <= 70 THEN c - 55
  ELSE IF c >= 97 /\ c <= 102 THEN c - 87
  ELSE -1

\* the value of a decimal digit, -1 for any other byte
DecDigitVal(c) == IF c >= 48 /\ c <= 57 THEN c - 48 ELSE -1

(***************************************************************************)
(* Python conversions.  A conversion yields [ok |-> TRUE, val |-> n], or   *)
(* [ok |-> FALSE] where Python raises ValueError.                          *)
(***************************************************************************)
ValueError == [ok |-> FALSE]
Value(n) == [ok |-> TRUE, val |-> n]

\* the value of a digit of the base (16 or 10), -1 for any other byte
DigitVal(c, base) == IF base = 16 THEN HexDigitVal(c) ELSE DecDigitVal(c)

\* the digits of a Python 3 integer literal: digits of the base, single
\* underscores allowed between two digits
DigitsOk(d, base) ==
  /\ Len(d) > 0
  /\ \A i \in 1..Len(d) :
        \/ DigitVal(d[i], base) >= 0
        \/ d[i] = UNDERSCORE /\ i > 1 /\ i < Len(d) /\ d[i - 1] # UNDERSCORE

\* the value of the digits d in the given base, underscores skipped
RECURSIVE DigitsValue(_, _, _)
DigitsValue(d, base, acc) ==
  IF d = << >> THEN acc
  ELSE IF Head(d) = UNDERSCORE THEN DigitsValue(Tail(d), base, acc)
  ELSE DigitsValue(Tail(d), base, acc * base + DigitVal(Head(d), base))

\* int(text, 16): surrounding whitespace, an optional sign, an optional 0x or
\* 0X prefix (which one underscore may follow), then hexadecimal digits
IntBase16(text) ==
  LET t == Strip(text)
      signed == Len(t) > 0 /\ t[1] \in {PLUS, MINUS}
      u == IF signed THEN Tail(t) ELSE t
      prefixed == Len(u) >= 2 /\ u[1] = ZERO /\ u[2] \in {LOWER_X, UPPER_X}
      v == IF prefixed THEN SliceFrom(u, 2) ELSE u
      d == IF prefixed /\ Len(v) > 0 /\ v[1] = UNDERSCORE THEN Tail(v) ELSE v
      n == DigitsValue(d, 16, 0)
  IN  IF DigitsOk(d, 16)
      THEN Value(IF signed /\ t[1] = MINUS THEN 0 - n ELSE n)
      ELSE ValueError

\* 10^k
RECURSIVE Pow10(_)
Pow10(k) == IF k = 0 THEN 1 ELSE 10 * Pow10(k - 1)

\* the fractional digits float() keeps exactly in the model (thousandths)
FracDigits == 3

\* float(text) for plain decimal text: surrounding whitespace, an optional
\* sign, digits with at most one decimal point and at least one digit.  The
\* value is held in thousandths.  Exponents, inf, nan, underscores and more
\* than FracDigits fractional digits are not modelled: no modelled sentence
\* holds such a field.
FloatParse(text) ==
  LET t == Strip(text)
      signed == Len(t) > 0 /\ t[1] \in {PLUS, MINUS}
      u == IF signed THEN Tail(t) ELSE t
      dot == RFind(u, DOT)
      ip == IF dot = -1 THEN u ELSE Slice(u, 0, dot)
      fp == IF dot = -1 THEN << >> ELSE SliceFrom(u, dot + 1)
      digits == ip \o fp
      ok == /\ Len(digits) > 0
            /\ \A i \in 1..Len(digits) : DecDigitVal(digits[i]) >= 0
            /\ Len(fp) <= FracDigits
      n == DigitsValue(digits, 10, 0) * Pow10(FracDigits - Len(fp))
  IN  IF ok THEN Value(IF t[1] = MINUS THEN 0 - n ELSE n) ELSE ValueError

(***************************************************************************)
(* The texts of the model: sentences the reader accepts, and the lines the *)
(* serial device delivers.                                                 *)
(***************************************************************************)
\* $WIXDR,C,23.4,C,T1   (one Celsius reading; checksum 2E)
S_A ==
  B(<< "$", "W", "I", "X", "D", "R", ",", "C", ",", "2", "3", ".", "4", ",", "C", ",", "T", "1" >>)

\* $WIXDR,P,1.013,B,Baro,C,5,K,T   (a pressure in bars, then a reading with the unsupported unit K; checksum 38)
S_B ==
  B(<< "$", "W", "I", "X", "D", "R", ",", "P", ",", "1", ".", "0", "1", "3", ",", "B", ",", "B", "a", "r", "o", ",", "C", ",", "5", ",", "K", ",", "T" >>)

\* $WIXDR,C,x,C,T,,7,C,X,C,2.5,C,V,C,9.5,F,U,P   (an unparsable number, an empty type, a Celsius
\* reading, a Fahrenheit reading, a partial group; checksum 21)
S_C ==
  B(<< "$", "W", "I", "X", "D", "R", ",", "C", ",", "x", ",", "C", ",", "T", ",", ",", "7", ",", "C", ",", "X", ",", "C", ",",
       "2", ".", "5", ",", "C", ",", "V", ",", "C", ",", "9", ".", "5", ",", "F", ",", "U", ",", "P" >>)

\* $WIXDR,C,1,C,*T   (a sentence with an asterisk in a transducer name; checksum 1F)
S_E ==
  B(<< "$", "W", "I", "X", "D", "R", ",", "C", ",", "1", ",", "C", ",", "*", "T" >>)

\* the line terminator readline() returns with a line
CRLF == << 13, 10 >>

\* a sentence framed as the device sends it: the text, '*', the checksum text
Framed(sentence, cs) == sentence \o << ASTERISK >> \o B(cs) \o CRLF

\* $WIXDR,C,23.5,C,T1: S_A with one bit of one byte flipped ('4' to '5')
S_A_flipped ==
  B(<< "$", "W", "I", "X", "D", "R", ",", "C", ",", "2", "3", ".", "5", ",", "C", ",", "T", "1" >>)

\* lines the reader of version 0.10 accepts
GoodLines ==
  { Framed(S_A, << "2", "E" >>),
    Framed(S_B, << "3", "8" >>),
    Framed(S_C, << "2", "1" >>) }

\* accepted too: a second asterisk, lower-case and longer checksum texts,
\* white space before the '$'
OddGoodLines ==
  { Framed(S_E, << "1", "F" >>),
    Framed(S_A, << "2", "e" >>),
    Framed(S_A, << "0", "x", "2", "E" >>),
    Framed(S_A, << "0", "2", "E" >>),
    Framed(S_A, << " ", "2", "E" >>),
    B(<< " ", " " >>) \o Framed(S_A, << "2", "E" >>) }

\* lines without the '$' in front, the empty ones included
NoDollarLines ==
  { << >>,
    CRLF,
    B(<< "G", "A", "R", "B", "A", "G", "E" >>) \o CRLF,
    B(<< "!", "A", "I", "V", "D", "M", ",", "1", "*", "5", "C" >>) \o CRLF,
    B(<< "W", "I", "X", "D", "R", ",", "C", ",", "1", ",", "C", ",", "T" >>) }

\* lines holding a byte that is not ASCII
NonAsciiLines ==
  { << 233 >> \o CRLF,
    B(<< "$", "W", "I", "X", "D", "R", ",", "C", ",", "2" >>) \o << 176 >> \o B(<< "*", "2", "E" >>) \o CRLF }

\* lines with a '$' that fail a later check
BadLines ==
  { S_A \o CRLF,
    Framed(S_A, << >>),
    Framed(S_A, << "Z", "Z" >>),
    Framed(S_A, << "2", "F" >>),
    Framed(S_A, << "-", "2", "E" >>),
    Framed(S_A_flipped, << "2", "E" >>),
    Framed(B(<< "$", "W", "I", "G", "L", "L", ",", "1" >>), << "4", "4" >>),
    Framed(B(<< "$", "W", "I" >>), << "1", "E" >>),
    Framed(B(<< "$" >>), << "0", "0" >>),
    B(<< "$" >>) }

\* every line the device delivers in the model
RawLines == GoodLines \cup OddGoodLines \cup NoDollarLines \cup NonAsciiLines \cup BadLines

\* the lines the device delivers where the reader runs next to the ticks
Feed == GoodLines

(***************************************************************************)
(* XDRThread.run: one line through the checks.                             *)
(***************************************************************************)
\* What one pass of the loop body does with the bytes readline() returned:
\* how it ends (kind), at which step (at), whether line was assigned before
\* that, and its value.
Discard(ln, step) == [kind |-> "continue", at |-> step, assigned |-> TRUE, line |-> ln]
Put(ln, item) == [kind |-> "put", at |-> "put", assigned |-> TRUE, line |-> ln, item |-> item]
Raise(ln, step, exc) ==
  [kind |-> "raise", at |-> step, assigned |-> TRUE, line |-> ln, exc |-> exc]
RaiseDecoding ==
  [kind |-> "raise", at |-> "decode", assigned |-> FALSE, exc |-> "UnicodeDecodeError"]

\* version 0.10: reduce(lambda cs, c: cs ^ ord(c), line[1:asterisk], 0)
RECURSIVE XorFold(_, _)
XorFold(s, acc) == IF s = << >> THEN acc ELSE XorFold(Tail(s), Xor(acc, Head(s)))

\* the running versions of the module
Versions == {"0.10", "0.11"}

\* actual_cs.  Version 0.11 folds bytearray(line[1:asterisk]); line is a text
\* (str, or unicode under Python 2) after decode('ascii'), and bytearray() of
\* a text without an encoding raises TypeError.
ActualCs(ver, body) ==
  IF ver = "0.10" THEN [raised |-> FALSE, cs |-> XorFold(body, 0)]
  ELSE [raised |-> TRUE]

\* the literal u'XDR'
XDR_TAG == B(<< "X", "D", "R" >>)

\* line[0] != u'$' is false (line is not empty)
HasDollar(ln) == ln[1] = DOLLAR

\* expected_cs != actual_cs is false
ChecksumsMatch(expected_cs, actual_cs) == expected_cs = actual_cs

\* the type filter left out: every sentence type passes
IsXDR_AnyType(ln) == TRUE

\* line[3:6] != u'XDR' is false
IsXDR(ln) == Slice(ln, 3, 6) = XDR_TAG

\* the loop body of run from the readline on
RunBody(raw, ver) ==
  LET stripped == Strip(raw) IN
  IF ~IsAscii(stripped) THEN RaiseDecoding
  ELSE LET ln == stripped IN
    IF Len(ln) = 0 THEN Raise(ln, "frame", "IndexError")
    ELSE IF ~HasDollar(ln) THEN Discard(ln, "frame")
    ELSE LET asterisk == RFind(ln, ASTERISK) IN
      IF asterisk = -1 THEN Discard(ln, "locate")
      ELSE LET expected_cs == IntBase16(SliceFrom(ln, asterisk + 1)) IN
        IF ~expected_cs.ok THEN Discard(ln, "parse")
        ELSE LET actual_cs == ActualCs(ver, Slice(ln, 1, asterisk)) IN
          IF actual_cs.raised THEN Raise(ln, "verify", "TypeError")
          ELSE IF ~ChecksumsMatch(expected_cs.val, actual_cs.cs) THEN Discard(ln, "verify")
          ELSE IF ~IsXDR(ln) THEN Discard(ln, "type")
          ELSE Put(ln, Slice(ln, 0, asterisk))

\* RunBody for every line of the model, computed once
RunTable == [raw \in RawLines, ver \in Versions |-> RunBody(raw, ver)]

(***************************************************************************)
(* XDR.new_loop_packet: one sentence into the packet.                      *)
(***************************************************************************)
\* The values a packet holds.  A number the engine put there is Lit(n);
\* weewx.units is not part of this repository, so the value convertStd
\* returns is kept as the term of its arguments.
Lit(n) == [lit |-> n]
ValueTuple(value, unit, group) == [value |-> value, unit |-> unit, group |-> group]
convertStd(val_t, target_std) == [converted |-> val_t, std |-> target_std]

\* the unit codes of an XDR sentence the code knows
UNIT_C == B(<< "C" >>)
UNIT_F == B(<< "F" >>)
UNIT_B == B(<< "B" >>)

\* the unit names of weewx the code assigns to `unit`
DEGREE_C == B(<< "d", "e", "g", "r", "e", "e", "_", "C" >>)
DEGREE_F == B(<< "d", "e", "g", "r", "e", "e", "_", "F" >>)
MBAR == B(<< "m", "b", "a", "r" >>)

\* bars taken for centibars: f_data *= 100.0
TimesThousand_Hundred(f_data) == f_data * 100

\* f_data *= 1000.0, with the value in thousandths kept exact
TimesThousand(f_data) == f_data * 1000

\* a new dict bound to event.packet in place of the caller's: only usUnits
\* and the field written survive
SetItem_NewPacket(pkt, key, value) ==
  [k \in {"usUnits", key} |-> IF k = key THEN value ELSE pkt[k]]

\* event.packet[obs_type] = value
SetItem(pkt, key, value) ==
  [k \in (DOMAIN pkt) \cup {key} |-> IF k = key THEN value ELSE pkt[k]]

\* sensor maps: the entries in the order iteration visits them
\* the map of the documentation: pressure = P, outTemp = C
TypicalMap ==
  << [obs_type |-> "pressure", code |-> B(<< "P" >>)],
     [obs_type |-> "outTemp", code |-> B(<< "C" >>)] >>

\* two names for one transducer type
TwoTempsMap ==
  << [obs_type |-> "outTemp", code |-> B(<< "C" >>)],
     [obs_type |-> "extraTemp1", code |-> B(<< "C" >>)] >>

SensorMaps == { << >>, TypicalMap, TwoTempsMap }

\* the body of `for obs_type in self.sensor_map` for one entry; st holds the
\* loop's variables unit and packet, which the body assigns
MapEntryStep(st, entry, transducer_type, data) ==
  IF entry.code # transducer_type THEN st
  ELSE LET f_data == FloatParse(data) IN
    IF ~f_data.ok THEN st
    ELSE IF st.unit = UNIT_C
      THEN [unit |-> DEGREE_C,
            packet |-> SetItem(st.packet, entry.obs_type,
                         convertStd(ValueTuple(f_data.val, DEGREE_C, "group_temperature"),
                                    st.packet["usUnits"]))]
    ELSE IF st.unit = UNIT_F
      THEN [unit |-> DEGREE_F,
            packet |-> SetItem(st.packet, entry.obs_type,
                         convertStd(ValueTuple(f_data.val, DEGREE_F, "group_temperature"),
                                    st.packet["usUnits"]))]
    ELSE IF st.unit = UNIT_B
      THEN [unit |-> MBAR,
            packet |-> SetItem(st.packet, entry.obs_type,
                         convertStd(ValueTuple(TimesThousand(f_data.val), MBAR, "group_pressure"),
                                    st.packet["usUnits"]))]
    ELSE st

\* `for obs_type in self.sensor_map`, from entry i on
RECURSIVE MapLoop(_, _, _, _, _)
MapLoop(st, smap, i, transducer_type, data) ==
  IF i > Len(smap) THEN st
  ELSE MapLoop(MapEntryStep(st, smap[i], transducer_type, data), smap, i + 1,
               transducer_type, data)

\* one 4-tuple of a sentence
HandleTuple(pkt, smap, transducer_type, data, unit, name) ==
  IF transducer_type # << >> /\ data # << >> /\ unit # << >>
  THEN MapLoop([unit |-> unit, packet |-> pkt], smap, 1, transducer_type, data).packet
  ELSE pkt

\* zip(*[it, it, it, it]) over parts[1:]: the complete groups of four
Tuples(parts) ==
  [g \in 1..((Len(parts) - 1) \div 4) |->
     [transducer_type |-> parts[4 * g - 2], data |-> parts[4 * g - 1],
      unit |-> parts[4 * g], name |-> parts[4 * g + 1]]]

\* a float() whose ValueError is not caught: the first unparsable number ends
\* the work on the sentence
RECURSIVE TupleLoop_AbortOnBadNumber(_, _, _, _)
TupleLoop_AbortOnBadNumber(pkt, smap, tuples, g) ==
  IF g > Len(tuples) THEN pkt
  ELSE IF tuples[g].data # << >> /\ ~FloatParse(tuples[g].data).ok THEN pkt
  ELSE TupleLoop_AbortOnBadNumber(
         HandleTuple(pkt, smap, tuples[g].transducer_type, tuples[g].data,
                     tuples[g].unit, tuples[g].name),
         smap, tuples, g + 1)

\* `for transducer_type, data, unit, name in sentences`, from tuple g on
RECURSIVE TupleLoop(_, _, _, _)
TupleLoop(pkt, smap, tuples, g) ==
  IF g > Len(tuples) THEN pkt
  ELSE TupleLoop(HandleTuple(pkt, smap, tuples[g].transducer_type, tuples[g].data,
                             tuples[g].unit, tuples[g].name),
                 smap, tuples, g + 1)

\* every sentence the reader can put into the queue
QueueItems ==
  { RunTable[p[1], p[2]].item :
      p \in { q \in RawLines \X Versions : RunTable[q[1], q[2]].kind = "put" } }

\* parts = xdr_line.split(','); sentences = zip(*[it, it, it, it]), computed
\* once for every sentence of QueueItems
SentencesTable == [xdr \in QueueItems |-> Tuples(Split(xdr, COMMA))]

\* the packet after one sentence taken from the queue
ProcessLine(pkt, smap, xdr) == TupleLoop(pkt, smap, SentencesTable[xdr], 1)

\* the packets the engine hands to new_loop_packet: US units (usUnits = 1),
\* an inside and an outside temperature of the station's own driver
HostPackets ==
  { [k \in {"usUnits", "inTemp", "outTemp"} |->
       IF k = "usUnits" THEN Lit(1) ELSE IF k = "inTemp" THEN Lit(68000) ELSE Lit(50000)] }

(***************************************************************************)
(* The state.                                                              *)
(***************************************************************************)
VARIABLES
  version,       \* which copy of the module runs
  max_packets,   \* XDR.max_packets
  sensor_map,    \* XDR.sensor_map
  queue,         \* XDR.queue, oldest first
  run_lock,      \* the module's run_lock: "free", or who holds it, "main" or "reader"
  thread,        \* XDR.thread is set (TRUE) or None (FALSE)
  keep_running,  \* XDRThread.keep_running
  device_open,   \* the serial.Serial of run's with statement is open
  r_pc,          \* the reader thread: "unstarted", "check" (at with run_lock),
                 \* "locked" (inside it), "read", "returned", "raised"
  r_exc,         \* the exception that ended the reader thread, "" if none
  raw_line,      \* the bytes the last readline() returned
  line,          \* run's local variable line
  r_at,          \* the step at which the reader's last pass ended, "" before the first
  m_pc,          \* the main thread: "init", "idle", "trim", "get", "raised", and in
                 \* shutDown "stop" (at with run_lock), "flag" (inside it), "join", "down"
  t_result,      \* how the last new_loop_packet ended: "returned", the name of the
                 \* exception it raised, or "" (none called yet, or one is running)
  packet,        \* event.packet of the current or last tick
  xdr_line,      \* new_loop_packet's local variable xdr_line
  alive_report,  \* what shutDown logged: "", "unable" or "terminated"
  s_result,      \* how shutDown ended: "returned", the name of the exception it
                 \* raised, or "" (not called yet, or running)
  enq,           \* history: every sentence put, in order
  removed,       \* history: every sentence taken from the queue, in order
  t_start,       \* history: the queue when the current or last tick began
  t_packet,      \* history: the packet as the engine handed it to that tick
  t_put,         \* history: a sentence was put during that tick
  t_discarded,   \* history: the sentences that tick took without processing
  t_processed    \* history: the sentences that tick processed

config == << version, max_packets, sensor_map >>
reader == << keep_running, device_open, r_pc, r_exc, raw_line, line, r_at >>
ticker == << m_pc, t_result, packet, xdr_line, thread, alive_report, s_result >>
history == << enq, removed, t_start, t_packet, t_put, t_discarded, t_processed >>
vars == << config, queue, run_lock, reader, ticker, history >>

\* the default of max_packets
DefaultMaxPackets == 5

\* XDR.__init__ and XDRThread.__init__, whatever the configuration
Constructed ==
  /\ version \in Versions
  /\ queue = << >>
  /\ run_lock = "free"
  /\ thread = TRUE
  /\ keep_running = TRUE
  /\ device_open = FALSE
  /\ r_pc = "unstarted"
  /\ r_exc = ""
  /\ raw_line = << >>
  /\ line = << >>
  /\ r_at = ""
  /\ m_pc = "init"
  /\ t_result = ""
  /\ packet \in HostPackets
  /\ xdr_line = << >>
  /\ alive_report = ""
  /\ s_result = ""
  /\ enq = << >>
  /\ removed = << >>
  /\ t_start = << >>
  /\ t_packet = packet
  /\ t_put = FALSE
  /\ t_discarded = << >>
  /\ t_processed = << >>

\* max_packets is any integer to_int yields (-1 stands for the negative
\* ones), sensor_map any of SensorMaps
Init ==
  /\ Constructed
  /\ max_packets \in (0 - 1)..MaxMaxPackets
  /\ sensor_map \in SensorMaps

\* the service as configured by install.py
InitReader ==
  /\ Constructed
  /\ max_packets = DefaultMaxPackets
  /\ sensor_map = TypicalMap

InTick == m_pc \in {"trim", "get"}

(***************************************************************************)
(* The reader thread.                                                      *)
(***************************************************************************)
\* a with statement that leaves the port open on exit
Closed_Leaked(dev) == dev

\* the with statement of run is left: Serial.__exit__ closes the port
Closed(dev) == FALSE

\* XDR.startup: thread.start(); run opens the port
Startup ==
  /\ m_pc = "init"
  /\ m_pc' = "idle"
  /\ r_pc' = "check"
  /\ device_open' = TRUE
  /\ UNCHANGED << config, run_lock, queue, keep_running, r_exc, raw_line, line, r_at,
                  t_result, packet, xdr_line, thread, alive_report, s_result, history >>

\* XDR.startup: thread.start(); serial.Serial(...) raises, no port is opened
OpenFails ==
  /\ m_pc = "init"
  /\ m_pc' = "idle"
  /\ r_pc' = "raised"
  /\ r_exc' = "SerialException"
  /\ UNCHANGED << config, run_lock, queue, keep_running, device_open, raw_line, line, r_at,
                  t_result, packet, xdr_line, thread, alive_report, s_result, history >>

\* with run_lock: the reader acquires the lock
RunAcquire ==
  /\ r_pc = "check"
  /\ run_lock = "free"
  /\ run_lock' = "reader"
  /\ r_pc' = "locked"
  /\ UNCHANGED << config, queue, keep_running, device_open, r_exc, raw_line, line, r_at,
                  ticker, history >>

\* a reader that never looks at the flag
StopRequested_Ignored(flag) == FALSE

\* not self.keep_running
StopRequested(flag) == ~flag

\* if not self.keep_running: return; the lock is released either way
RunCheck ==
  /\ r_pc = "locked"
  /\ run_lock' = "free"
  /\ IF StopRequested(keep_running)
     THEN r_pc' = "returned" /\ device_open' = Closed(device_open)
     ELSE r_pc' = "read" /\ UNCHANGED device_open
  /\ UNCHANGED << config, queue, keep_running, r_exc, raw_line, line, r_at, ticker, history >>

\* device.readline() returns raw; the rest of the loop body
RunIter(raw) ==
  /\ r_pc = "read"
  /\ LET out == RunTable[raw, version] IN
       /\ raw_line' = raw
       /\ line' = IF out.assigned THEN out.line ELSE line
       /\ r_at' = out.at
       /\ IF out.kind = "put"
          THEN /\ Len(enq) < MaxEnq
               /\ queue' = Append(queue, out.item)
               /\ enq' = Append(enq, out.item)
               /\ t_put' = (t_put \/ InTick)
          ELSE UNCHANGED << queue, enq, t_put >>
       /\ IF out.kind = "raise"
          THEN r_pc' = "raised" /\ r_exc' = out.exc /\ device_open' = Closed(device_open)
          ELSE r_pc' = "check" /\ UNCHANGED << r_exc, device_open >>
  /\ UNCHANGED << config, run_lock, keep_running, ticker, removed, t_start, t_packet,
                  t_discarded, t_processed >>

\* device.readline() raises: the device is gone
ReadFails ==
  /\ r_pc = "read"
  /\ r_pc' = "raised"
  /\ r_exc' = "SerialException"
  /\ device_open' = Closed(device_open)
  /\ UNCHANGED << config, run_lock, queue, keep_running, raw_line, line, r_at, ticker, history >>

(***************************************************************************)
(* The main thread: XDR.new_loop_packet and XDR.shutDown.                  *)
(***************************************************************************)
\* a LifoQueue in place of the Queue: the newest item
QGet_Lifo(q) == [item |-> q[Len(q)], rest |-> SubSeq(q, 1, Len(q) - 1)]

\* Queue.get_nowait() on a queue that is not empty: the oldest item
QGet(q) == [item |-> Head(q), rest |-> Tail(q)]

\* the comparison off by one: self.queue.qsize() >= self.max_packets
OverBacklog_OffByOne(q, maxp) == Len(q) >= maxp

\* self.queue.qsize() > self.max_packets
OverBacklog(q, maxp) == Len(q) > maxp

\* the engine calls new_loop_packet with the event's packet
NewLoopPacket(pkt) ==
  /\ m_pc = "idle"
  /\ m_pc' = "trim"
  /\ packet' = pkt
  /\ t_start' = queue
  /\ t_packet' = pkt
  /\ t_put' = FALSE
  /\ t_discarded' = << >>
  /\ t_processed' = << >>
  /\ t_result' = ""
  /\ UNCHANGED << config, run_lock, queue, reader, xdr_line, thread, alive_report, s_result, enq, removed >>

\* while self.queue.qsize() > self.max_packets: self.queue.get_nowait()
\* (one turn of the loop; queue.Empty is not caught here)
TrimDiscard ==
  /\ m_pc = "trim"
  /\ OverBacklog(queue, max_packets)
  /\ IF queue = << >>
     THEN /\ m_pc' = "raised"
          /\ t_result' = "Empty"
          /\ UNCHANGED << queue, removed, t_discarded >>
     ELSE /\ queue' = QGet(queue).rest
          /\ removed' = Append(removed, QGet(queue).item)
          /\ t_discarded' = Append(t_discarded, QGet(queue).item)
          /\ UNCHANGED << m_pc, t_result >>
  /\ UNCHANGED << config, run_lock, reader, packet, xdr_line, thread, alive_report, s_result, enq, t_start,
                  t_packet, t_put, t_processed >>

\* the while condition is false: on to the try
TrimDone ==
  /\ m_pc = "trim"
  /\ ~OverBacklog(queue, max_packets)
  /\ m_pc' = "get"
  /\ UNCHANGED << config, run_lock, queue, reader, t_result, packet, xdr_line, thread, alive_report, s_result,
                  history >>

\* xdr_line = self.queue.get_nowait(), return on queue.Empty; else the
\* sentence goes into the packet and the outer loop starts over
GetNowait ==
  /\ m_pc = "get"
  /\ IF queue = << >>
     THEN /\ m_pc' = "idle"
          /\ t_result' = "returned"
          /\ UNCHANGED << queue, packet, xdr_line, removed, t_processed >>
     ELSE /\ queue' = QGet(queue).rest
          /\ xdr_line' = QGet(queue).item
          /\ packet' = ProcessLine(packet, sensor_map, QGet(queue).item)
          /\ removed' = Append(removed, QGet(queue).item)
          /\ t_processed' = Append(t_processed, QGet(queue).item)
          /\ m_pc' = "trim"
          /\ UNCHANGED t_result
  /\ UNCHANGED << config, run_lock, reader, thread, alive_report, s_result, enq, t_start, t_packet,
                  t_put, t_discarded >>

\* the engine calls shutDown: if self.thread: log.info(...)
ShutDown ==
  /\ m_pc = "idle"
  /\ thread
  /\ m_pc' = "stop"
  /\ UNCHANGED << config, run_lock, queue, reader, t_result, packet, xdr_line, thread,
                  alive_report, s_result, history >>

\* with run_lock: the main thread acquires the lock
ShutDownAcquire ==
  /\ m_pc = "stop"
  /\ run_lock = "free"
  /\ run_lock' = "main"
  /\ m_pc' = "flag"
  /\ UNCHANGED << config, queue, reader, t_result, packet, xdr_line, thread, alive_report,
                  s_result, history >>

\* self.thread.keep_running = False; the lock is released
ShutDownFlag ==
  /\ m_pc = "flag"
  /\ keep_running' = FALSE
  /\ run_lock' = "free"
  /\ m_pc' = "join"
  /\ UNCHANGED << config, queue, device_open, r_pc, r_exc, raw_line, line, r_at, t_result,
                  packet, xdr_line, thread, alive_report, s_result, history >>

\* the reader thread has ended
Terminated == r_pc \in {"returned", "raised"}

\* self.thread.join(5.0) returns, the thread ended or the 5 seconds over;
\* isAlive() on an interpreter whose Thread has it; the log line;
\* self.thread = None
JoinReturns ==
  /\ m_pc = "join"
  /\ alive_report' = IF Terminated THEN "terminated" ELSE "unable"
  /\ thread' = FALSE
  /\ m_pc' = "down"
  /\ s_result' = "returned"
  /\ UNCHANGED << config, run_lock, queue, reader, t_result, packet, xdr_line, history >>

\* self.thread.join(5.0) returns; isAlive() on an interpreter whose Thread has
\* no such method (Python 3.9 and later): AttributeError leaves shutDown
IsAliveRaises ==
  /\ m_pc = "join"
  /\ m_pc' = "raised"
  /\ s_result' = "AttributeError"
  /\ UNCHANGED << config, run_lock, queue, reader, t_result, packet, xdr_line, thread,
                  alive_report, history >>

(***************************************************************************)
(* The specifications.                                                     *)
(***************************************************************************)
\* the running service: the engine's LOOP packets and the reader thread, the
\* device delivering Feed
Next ==
  \/ Startup
  \/ OpenFails
  \/ RunAcquire
  \/ RunCheck
  \/ \E raw \in Feed : RunIter(raw)
  \/ ReadFails
  \/ \E pkt \in HostPackets : NewLoopPacket(pkt)
  \/ TrimDiscard
  \/ TrimDone
  \/ GetNowait

Spec == Init /\ [][Next]_vars

\* one step of new_loop_packet
TickStep == TrimDiscard \/ TrimDone \/ GetNowait

\* Spec with both threads scheduled fairly: a running new_loop_packet takes
\* its next step, the reader gets run_lock and tests the flag; readline() may
\* return a line at any time or block
SpecFair ==
  /\ Init
  /\ [][Next]_vars
  /\ WF_vars(TickStep)
  /\ WF_vars(RunAcquire)
  /\ WF_vars(RunCheck)

\* the reader thread from startup to shutDown, no LOOP packet in between, the
\* device delivering every line of RawLines
NextReader ==
  \/ Startup
  \/ OpenFails
  \/ RunAcquire
  \/ RunCheck
  \/ \E raw \in RawLines : RunIter(raw)
  \/ ReadFails
  \/ ShutDown
  \/ ShutDownAcquire
  \/ ShutDownFlag
  \/ JoinReturns
  \/ IsAliveRaises

SpecReader == InitReader /\ [][NextReader]_vars

\* readline() returns, with a line or by raising
ReadLine == (\E raw \in RawLines : RunIter(raw)) \/ ReadFails

\* join(5.0) returns and shutDown goes on
JoinEnds == JoinReturns \/ IsAliveRaises

\* SpecReader with both threads scheduled fairly: a thread that can take its
\* next step takes it, every readline() returns and join(5.0) returns; the
\* main thread waiting for run_lock, which the reader holds for the flag test
\* only and frees before every readline(), gets it
SpecReaderFair ==
  /\ InitReader
  /\ [][NextReader]_vars
  /\ WF_vars(RunAcquire)
  /\ WF_vars(RunCheck)
  /\ WF_vars(ReadLine)
  /\ SF_vars(ShutDownAcquire)
  /\ WF_vars(ShutDownFlag)
  /\ WF_vars(JoinEnds)

(***************************************************************************)
(* Properties of the reader (specification SpecReader).                    *)
(***************************************************************************)
\* this step is a pass of run's loop body over a line readline() returned
LineRead == r_pc = "read" /\ r_pc' # "read" /\ r_exc' # "SerialException"

\* the stripped line does not start with '$' (it may be empty)
NoDollar(raw) == LET t == Strip(raw) IN t = << >> \/ t[1] # DOLLAR

\* the XOR of the bytes strictly between the '$' and the last '*' of ln equals
\* the hexadecimal value of the text after that '*'
XorMatches(ln) ==
  LET a == RFind(ln, ASTERISK)
      e == IntBase16(SliceFrom(ln, a + 1))
  IN  e.ok /\ e.val = XorFold(Slice(ln, 1, a), 0)

\* raw passes every check of the reader
PassesAllChecks(raw) ==
  LET ln == Strip(raw) IN
    /\ IsAscii(ln)
    /\ ln # << >>
    /\ ln[1] = DOLLAR
    /\ RFind(ln, ASTERISK) # -1
    /\ XorMatches(ln)
    /\ Len(ln) >= 6
    /\ SubSeq(ln, 4, 6) = XDR_TAG

\* the text of a line from the '$' up to the last '*', excluded
SentenceOf(raw) == LET ln == Strip(raw) IN SubSeq(ln, 1, RFind(ln, ASTERISK))

\* the sentences of the lines that pass every check
ValidatedSentences == { SentenceOf(raw) : raw \in { r \in RawLines : PassesAllChecks(r) } }

\* C1: a line that does not start with '$', the empty line of a timed-out read
\* included, is discarded without raising: nothing is put, and the reader is
\* back at the keep_running check, alive.
C1_NoDollarLineDiscarded ==
  [][(LineRead /\ NoDollar(raw_line'))
       => (r_pc' = "check" /\ r_exc' = "" /\ queue' = queue)]_vars

\* C2: a line holding a byte that is not ASCII is discarded: nothing is put,
\* the reader thread does not end, and it goes on to the next line.
C2_NonAsciiLineDiscarded ==
  [][(LineRead /\ ~IsAscii(raw_line'))
       => (r_pc' = "check" /\ r_exc' = "" /\ queue' = queue)]_vars

\* C3: a line that starts with '$' and holds a '*' gets past the checksum step
\* (to the type filter) if and only if the XOR of the bytes between the '$'
\* and the last '*' equals the hexadecimal value after that '*'.
C3_ChecksumAcceptsIffXorMatches ==
  [][(LineRead /\ IsAscii(raw_line') /\ ~NoDollar(raw_line')
        /\ RFind(Strip(raw_line'), ASTERISK) # -1)
       => ((r_at' \in {"type", "put"}) <=> XorMatches(Strip(raw_line')))]_vars

\* C4: every element of the queue is the text before the last '*' of a line
\* that passed every check (it starts with '$', its checksum matched, its
\* characters 3 to 5 are XDR), and a pass over a line that fails a check puts
\* nothing.
C4_QueueHoldsValidatedSentences ==
  /\ \A i \in 1..Len(queue) :
        /\ queue[i] \in ValidatedSentences
        /\ queue[i][1] = DOLLAR
        /\ Len(queue[i]) >= 6 /\ SubSeq(queue[i], 4, 6) = XDR_TAG
  /\ queue = enq
  /\ r_at = "put" =>
        /\ PassesAllChecks(raw_line)
        /\ enq # << >> /\ enq[Len(enq)] = SentenceOf(raw_line)

\* C4 witness: two different sentences are in the queue, the last line read
\* was put
C4_Witness ==
  /\ Len(queue) >= 2
  /\ queue[1] # queue[2]
  /\ r_at = "put"
  /\ SentenceOf(raw_line) = S_A

(***************************************************************************)
(* Properties of the ticks (specification Spec).                           *)
(***************************************************************************)
\* C5: in one call of new_loop_packet at most max_packets sentences are
\* processed, whatever the reader puts meanwhile.
C5_AtMostMaxPacketsProcessed ==
  max_packets >= 0 => Len(t_processed) <= max_packets

\* s is the first n elements of t
IsPrefix(s, t) == Len(s) <= Len(t) /\ s = SubSeq(t, 1, Len(s))

C7_FifoOrder ==
  removed \o queue = enq

\* C7 witness: two different sentences were taken, a third one waits
C7_Witness ==
  /\ Len(removed) >= 2
  /\ removed[1] # removed[2]
  /\ queue # << >>
  /\ t_discarded # << >>
  /\ t_processed # << >>

\* the 4-tuples of every sentence the reader can put, computed once
ReadingsTable == [xdr \in ValidatedSentences |-> Tuples(Split(xdr, COMMA))]

\* the 4-tuples of a sentence
ReadingsOf(xdr) == ReadingsTable[xdr]

\* a reading new_loop_packet is to apply: type, data and unit are not empty,
\* the data is a number, the unit is C, F or B
IsValidReading(t) ==
  /\ t.transducer_type # << >> /\ t.data # << >> /\ t.unit # << >>
  /\ FloatParse(t.data).ok
  /\ t.unit \in {UNIT_C, UNIT_F, UNIT_B}

\* the unit normalization table: what a valid reading is converted from
Normalized(t) ==
  IF t.unit = UNIT_C THEN ValueTuple(FloatParse(t.data).val, DEGREE_C, "group_temperature")
  ELSE IF t.unit = UNIT_F
    THEN ValueTuple(FloatParse(t.data).val, DEGREE_F, "group_temperature")
  ELSE ValueTuple(FloatParse(t.data).val * 1000, MBAR, "group_pressure")

\* for every reading of every sentence: whether it is valid, and then what the
\* unit normalization table makes of it; computed once
NormalizedTable ==
  [xdr \in ValidatedSentences |->
     [g \in DOMAIN ReadingsOf(xdr) |->
        IF IsValidReading(ReadingsOf(xdr)[g])
        THEN [valid |-> TRUE, val_t |-> Normalized(ReadingsOf(xdr)[g])]
        ELSE [valid |-> FALSE]]]

\* the indexes of the valid readings of transducer type code in a sentence
ValidReadings(xdr, code) ==
  { g \in DOMAIN ReadingsOf(xdr) :
      ReadingsOf(xdr)[g].transducer_type = code /\ IsValidReading(ReadingsOf(xdr)[g]) }

\* the largest element of a non-empty set of integers
MaxOf(S) == CHOOSE x \in S : \A y \in S : y <= x

\* C8: after a sentence is processed, every entry of the sensor map whose
\* code is the transducer type of a valid reading of the sentence holds the
\* converted value of (the last such) reading, also when several output
\* names map to that transducer type.
C8_EveryMatchingEntryAssigned ==
  t_processed # << >> =>
    \A i \in 1..Len(sensor_map) :
      LET G == ValidReadings(xdr_line, sensor_map[i].code) IN
        G # {} =>
          /\ sensor_map[i].obs_type \in DOMAIN packet
          /\ packet[sensor_map[i].obs_type]
               = convertStd(Normalized(ReadingsOf(xdr_line)[MaxOf(G)]), t_packet["usUnits"])

\* C9: every value a tick writes into the packet is the conversion of a
\* reading whose unit code is C, F or B: of its value as degree_C or
\* degree_F, or of its value times 1000 as mbar.  A reading with another unit
\* code is never applied.
C9_UnitNormalization ==
  \A k \in DOMAIN packet :
    \/ k \in DOMAIN t_packet /\ packet[k] = t_packet[k]
    \/ \E i \in 1..Len(t_processed) :
         \E g \in DOMAIN ReadingsOf(t_processed[i]) :
           LET t == ReadingsOf(t_processed[i])[g]
               n == NormalizedTable[t_processed[i]][g]
           IN
             /\ n.valid
             /\ \E j \in 1..Len(sensor_map) :
                   sensor_map[j].obs_type = k /\ sensor_map[j].code = t.transducer_type
             /\ packet[k] = convertStd(n.val_t, t_packet["usUnits"])

\* C9 witness: a tick processed a pressure in bars, a reading with the unit K
\* and a Fahrenheit reading; the packet holds 1013.0 mbar and 9.5 degree_F
C9_Witness ==
  /\ t_processed = << S_B, S_C >>
  /\ "pressure" \in DOMAIN packet
  /\ packet["pressure"]
       = convertStd(ValueTuple(1013 * Pow10(FracDigits), MBAR, "group_pressure"), Lit(1))
  /\ packet["outTemp"]
       = convertStd(ValueTuple(95 * Pow10(FracDigits - 1), DEGREE_F, "group_temperature"), Lit(1))

\* C10: new_loop_packet never raises into the engine.
C10_TickNeverRaises == t_result \in {"", "returned"}

\* C11: a tick that begins with the queue empty and during which nothing is
\* put (so every tick after the reader has ended and the queue was drained)
\* takes nothing from the queue, leaves the packet as the engine handed it
\* over and does not raise.
C11_EmptyQueueTickIsNoOp ==
  (t_start = << >> /\ ~t_put) =>
    /\ packet = t_packet
    /\ t_discarded = << >> /\ t_processed = << >>
    /\ t_result \in {"", "returned"}

\* text is exactly two hexadecimal digits
IsTwoHexDigits(text) ==
  Len(text) = 2 /\ \A i \in 1..2 : HexDigitVal(text[i]) # -1

\* C19: a line that starts with '$' and whose text after the last '*' is not
\* exactly two hexadecimal digits is discarded: nothing is put, nothing is
\* raised, the reader goes on to the next line.
C19_MalformedChecksumDiscarded ==
  [][(LineRead /\ IsAscii(raw_line') /\ ~NoDollar(raw_line')
        /\ RFind(Strip(raw_line'), ASTERISK) # -1
        /\ ~IsTwoHexDigits(SliceFrom(Strip(raw_line'), RFind(Strip(raw_line'), ASTERISK) + 1)))
       => (r_pc' = "check" /\ r_exc' = "" /\ queue' = queue)]_vars

\* the stripped lines a and b both start with '$' and hold a '*', and b is a
\* with one bit of one byte strictly between the '$' and the last '*' flipped
OneBitFlip(a, b) ==
  LET la == Strip(a)
      lb == Strip(b)
      ast == RFind(la, ASTERISK)
      D == { i \in 1..Len(la) : Len(lb) = Len(la) /\ la[i] # lb[i] }
  IN  /\ Len(la) = Len(lb)
      /\ la # << >> /\ la[1] = DOLLAR
      /\ ast # -1
      /\ Cardinality(D) = 1
      /\ \A i \in D : /\ 1 < i /\ i <= ast
                       /\ Xor(la[i], lb[i]) \in {1, 2, 4, 8, 16, 32, 64, 128}

\* the reader's pass over raw gets past the checksum verification
Verified(raw, ver) == RunTable[raw, ver].at \in {"type", "put"}

\* C15: when the line just read starts with '$' and holds a '*', every line
\* that differs from it by one flipped bit between the '$' and the '*' gets
\* the opposite result from the checksum verification.
C15_BitFlipFlipsVerification ==
  [][LineRead =>
       \A other \in RawLines :
         OneBitFlip(raw_line', other)
           => (Verified(raw_line', version) # Verified(other, version))]_vars

(***************************************************************************)
(* Properties of shutDown and the reader's end (SpecReader, SpecReaderFair) *)
(***************************************************************************)
\* C12: once shutDown has set keep_running to False the reader thread ends,
\* every readline() returning; and a reader that has seen the flag False and
\* returned reads no further line and puts nothing more.
C12_ReaderStopsOnFlag ==
  /\ (~keep_running) ~> Terminated
  /\ [][r_pc = "returned"
         => (r_pc' = "returned" /\ raw_line' = raw_line /\ r_at' = r_at
               /\ queue' = queue /\ enq' = enq)]_vars

\* C12 witness: the reader put a sentence, then saw the flag False and returned
C12_Witness ==
  /\ ~keep_running
  /\ r_pc = "returned"
  /\ enq # << >>
  /\ r_at = "put"

\* C13: whenever the reader thread has ended (it saw the flag False, read
\* failed, or the loop body raised) the serial port is closed.
C13_PortClosedWhenReaderEnded ==
  Terminated => ~device_open

\* C13 witness: the port was opened, lines were read, and the loop body raised
\* on one of them: the thread has ended and the port is closed
C13_Witness ==
  /\ r_pc = "raised"
  /\ r_exc \in {"IndexError", "UnicodeDecodeError", "TypeError"}
  /\ ~device_open
  /\ r_at # ""

\* C14: every call of shutDown completes with the thread handle cleared,
\* whatever the reader does meanwhile: it gets run_lock, and after join(5.0)
\* it logs and sets self.thread to None, the reader ended or not.
C14_ShutDownCompletes ==
  (m_pc = "stop") ~> (m_pc = "down" /\ s_result = "returned" /\ ~thread)

(***************************************************************************)
(* More properties of the ticks (specification Spec).                      *)
(***************************************************************************)
\* C16: once a tick has processed a sentence it discards none: no step of a
\* tick whose t_processed is not empty adds to t_discarded, so every
\* discarded sentence was taken before, and is older than, every processed
\* one.
C16_NoDiscardAfterProcessing ==
  [][(InTick /\ t_processed # << >>) => t_discarded' = t_discarded]_vars

\* the transducer type of reading t is the code of an entry of smap
IsMapped(t, smap) == \E j \in 1..Len(smap) : smap[j].code = t.transducer_type

\* the readings of every sentence that are not rejected, incomplete trailing
\* groups left out, computed once for every sensor map
AcceptedTable ==
  [xdr \in ValidatedSentences, smap \in SensorMaps |->
     SelectSeq(ReadingsOf(xdr), LAMBDA t : IsValidReading(t) /\ IsMapped(t, smap))]

\* C17: the packet after a sentence is processed is the packet the sentence's
\* accepted readings alone give, in their order: the rejected readings (an
\* empty type, data or unit, an unparsable number, a type not in the sensor
\* map, a unit other than C, F, B) and the incomplete trailing group change
\* nothing and keep no accepted reading, of this sentence or a later one, from
\* being applied.
C17_RejectedReadingsChangeNothing ==
  [][(m_pc = "get" /\ t_processed' # t_processed)
       => packet' = TupleLoop(packet, sensor_map, AcceptedTable[Head(queue), sensor_map], 1)]_vars

\* C17 witness: with only C in the sensor map a tick processed S_B (a type not
\* in the map, the unit K) and then S_C (an unparsable number, an empty type,
\* two accepted readings, an incomplete group): no pressure, outTemp 9.5 degree_F
C17_Witness ==
  /\ sensor_map = TwoTempsMap
  /\ t_processed = << S_B, S_C >>
  /\ xdr_line = S_C
  /\ "pressure" \notin DOMAIN packet
  /\ packet["outTemp"]
       = convertStd(ValueTuple(95 * Pow10(FracDigits - 1), DEGREE_F, "group_temperature"), Lit(1))
  /\ packet["inTemp"] = t_packet["inTemp"]

\* the valid readings of transducer type code in the sentences lines, in
\* queue order and, within a sentence, in group order
RECURSIVE MatchingReadings(_, _)
MatchingReadings(lines, code) ==
  IF lines = << >> THEN << >>
  ELSE SelectSeq(ReadingsOf(Head(lines)),
                 LAMBDA t : IsValidReading(t) /\ t.transducer_type = code)
         \o MatchingReadings(Tail(lines), code)

\* C18: when a tick has returned, every output name of the sensor map that
\* two or more valid readings of the processed sentences match holds the
\* converted value of the last of them.
C18_LastReadingWins ==
  t_result = "returned" =>
    \A i \in 1..Len(sensor_map) :
      LET R == MatchingReadings(t_processed, sensor_map[i].code) IN
        Len(R) >= 2 =>
          /\ sensor_map[i].obs_type \in DOMAIN packet
          /\ packet[sensor_map[i].obs_type]
               = convertStd(Normalized(R[Len(R)]), t_packet["usUnits"])

\* C20: every call of new_loop_packet returns, whatever the reader puts
\* meanwhile.
C20_TickReturns ==
  (m_pc = "trim") ~> (m_pc = "idle" /\ t_result = "returned")

\* the output names of a sensor map
MapKeys(smap) == { smap[j].obs_type : j \in 1..Len(smap) }

\* C21: during and after a tick the packet has every field the engine handed
\* over, the fields whose names are not keys of the sensor map hold the values
\* they had, every field added is a key of the sensor map, and with an empty
\* sensor map the packet is the one handed over.
C21_OnlyMapKeysWritten ==
  /\ \A k \in DOMAIN t_packet :
        /\ k \in DOMAIN packet
        /\ k \notin MapKeys(sensor_map) => packet[k] = t_packet[k]
  /\ \A k \in DOMAIN packet : k \notin DOMAIN t_packet => k \in MapKeys(sensor_map)
  /\ sensor_map = << >> => packet = t_packet

\* C21 witness: a tick with the map pressure = P, outTemp = C has returned; it
\* added pressure and overwrote outTemp, inTemp and usUnits are as before
C21_Witness ==
  /\ t_result = "returned"
  /\ sensor_map = TypicalMap
  /\ t_processed # << >>
  /\ "pressure" \in DOMAIN packet
  /\ "pressure" \notin DOMAIN t_packet
  /\ packet["outTemp"] # t_packet["outTemp"]
  /\ packet["inTemp"] = t_packet["inTemp"]
  /\ packet["usUnits"] = t_packet["usUnits"]

====
